---------------------------- MODULE Spec2Model ----------------------------
(***************************************************************************)
(* IBFT header extra data (consensus/ibft/extra.go): the codec of the      *)
(* IstanbulExtra record and the accessors / mutators of Header.ExtraData.  *)
(* ExtraData is modelled byte for byte: 32 vanity bytes followed by the    *)
(* RLP encoding of (Validators, Seal, CommittedSeal).                      *)
(***************************************************************************)
EXTENDS Integers, Sequences, FiniteSets, TLC

(***************************************************************************)
(* Program constants.                                                      *)
(***************************************************************************)
IstanbulExtraVanity == 32

IstanbulExtraSeal == 65

AddressLength == 20

(***************************************************************************)
(* Bounds of the model.                                                    *)
(***************************************************************************)
NumAddrs == 3

MaxValidators == 3

MaxCommitted == 2

(***************************************************************************)
(* The wire codec (fastrlp): values, MarshalTo and Parse.                  *)
(* A value is a record [t, b, a]: its type, its bytes (TypeBytes) and its  *)
(* elements (TypeArray).                                                   *)
(***************************************************************************)
TypeBytes == "bytes"

TypeArray == "array"

TypeNull == "null"

TypeNullArray == "null-array"

NewBytes(bs) == [t |-> TypeBytes, b |-> bs, a |-> <<>>]

NewNull == [t |-> TypeNull, b |-> <<>>, a |-> <<>>]

NewNullArray == [t |-> TypeNullArray, b |-> <<>>, a |-> <<>>]

NewArray == [t |-> TypeArray, b |-> <<>>, a |-> <<>>]

\* Value.Set: append an element to an array value.
ArraySet(arr, vv) == [arr EXCEPT !.a = Append(@, vv)]

RECURSIVE UintBytes(_)
\* The minimal big-endian bytes of a positive size.
UintBytes(n) == IF n = 0 THEN <<>> ELSE UintBytes(n \div 256) \o <<n % 256>>

RECURSIVE ReadUint(_)
\* Big-endian bytes to a number.
ReadUint(bs) ==
    IF bs = <<>> THEN 0
    ELSE 256 * ReadUint(SubSeq(bs, 1, Len(bs) - 1)) + bs[Len(bs)]

\* The header of a string (base 128) or a list (base 192) of `size` bytes.
MarshalSize(base, size) ==
    IF size < 56 THEN <<base + size>>
    ELSE <<base + 55 + Len(UintBytes(size))>> \o UintBytes(size)

RECURSIVE MarshalTo(_, _)
RECURSIVE MarshalElems(_)
MarshalElems(vs) ==
    IF vs = <<>> THEN <<>> ELSE MarshalTo(Head(vs), <<>>) \o MarshalElems(Tail(vs))

\* Value.MarshalTo(dst): dst followed by the encoding of v.
MarshalTo(v, dst) ==
    CASE v.t = TypeBytes ->
           IF Len(v.b) = 1 /\ v.b[1] <= 127 THEN dst \o v.b
           ELSE dst \o MarshalSize(128, Len(v.b)) \o v.b
      [] v.t = TypeArray ->
           LET body == MarshalElems(v.a)
           IN  dst \o MarshalSize(192, Len(body)) \o body
      [] v.t = TypeNull -> dst \o <<128>>
      [] v.t = TypeNullArray -> dst \o <<192>>

Drop(bs, n) == SubSeq(bs, n + 1, Len(bs))

ParseErr == [ok |-> FALSE, v |-> NewNull, rest |-> <<>>]

ParseBytes(bs, size) ==
    IF size > Len(bs) THEN ParseErr
    ELSE [ok |-> TRUE, v |-> NewBytes(SubSeq(bs, 1, size)), rest |-> Drop(bs, size)]

RECURSIVE ParseValue(_)
RECURSIVE ParseElems(_)
\* The elements that fill bs exactly; ok is FALSE when one does not parse.
ParseElems(bs) ==
    IF bs = <<>> THEN [ok |-> TRUE, a |-> <<>>]
    ELSE LET one == ParseValue(bs)
         IN  IF ~one.ok THEN [ok |-> FALSE, a |-> <<>>]
             ELSE LET more == ParseElems(one.rest)
                  IN  [ok |-> more.ok, a |-> <<one.v>> \o more.a]

ParseList(bs, size) ==
    IF size > Len(bs) THEN ParseErr
    ELSE LET el == ParseElems(SubSeq(bs, 1, size))
         IN  IF ~el.ok THEN ParseErr
             ELSE [ok |-> TRUE,
                   v |-> [t |-> TypeArray, b |-> <<>>, a |-> el.a],
                   rest |-> Drop(bs, size)]

\* parseValue: the first value of bs and the bytes that follow it.
ParseValue(bs) ==
    IF bs = <<>> THEN ParseErr
    ELSE LET cur == bs[1]
         IN  CASE cur < 128 -> ParseBytes(bs, 1)
               [] cur >= 128 /\ cur < 184 -> ParseBytes(Drop(bs, 1), cur - 128)
               [] cur >= 184 /\ cur < 192 ->
                    LET n == cur - 183
                    IN  IF Len(bs) < n + 1 THEN ParseErr
                        ELSE LET size == ReadUint(SubSeq(bs, 2, n + 1))
                             IN  IF size < 56 THEN ParseErr
                                 ELSE ParseBytes(Drop(bs, n + 1), size)
               [] cur >= 192 /\ cur < 248 -> ParseList(Drop(bs, 1), cur - 192)
               [] OTHER ->
                    LET n == cur - 247
                    IN  IF Len(bs) < n + 1 THEN ParseErr
                        ELSE LET size == ReadUint(SubSeq(bs, 2, n + 1))
                             IN  IF size < 56 THEN ParseErr
                                 ELSE ParseList(Drop(bs, n + 1), size)

\* Value.GetElems: the elements of an array value.
GetElems(v) ==
    IF v.t = TypeArray THEN [ok |-> TRUE, a |-> v.a] ELSE [ok |-> FALSE, a |-> <<>>]

\* Value.GetBytes: the bytes of a byte-string value.
GetBytes(v) ==
    IF v.t = TypeBytes THEN [ok |-> TRUE, b |-> v.b] ELSE [ok |-> FALSE, b |-> <<>>]

\* Value.GetAddr: the bytes of a byte-string value of exactly 20 bytes.
GetAddr(v) ==
    IF v.t = TypeBytes /\ Len(v.b) = AddressLength
    THEN [ok |-> TRUE, b |-> v.b]
    ELSE [ok |-> FALSE, b |-> <<>>]

(***************************************************************************)
(* IstanbulExtra and its codec.                                            *)
(***************************************************************************)
IstanbulExtra(validators, seal, committedSeal) ==
    [Validators |-> validators, Seal |-> seal, CommittedSeal |-> committedSeal]

\* The zero value of the struct (&IstanbulExtra{}).
EmptyExtra == IstanbulExtra(<<>>, <<>>, <<>>)

\* The errors, named by their messages.
ErrNone == "nil"

ErrWrongExtraSize == "wrong extra size"

ErrCannotParse == "cannot parse RLP"

ErrNoArray == "value is not of type array"

ErrNotEnoughElements == "not enough elements to decode istambul extra"

ErrValidatorsType == "mismatch of RLP type for Validators"

ErrBadAddress == "bad validator address"

ErrSeal == "failed to decode Seal"

ErrCommittedType == "mismatch of RLP type for CommittedSeal"

ErrCommittedEntry == "bad committed seal entry"

RECURSIVE MarshalValidators(_, _)
\* The loop over i.Validators: every address is set into vals.
MarshalValidators(validators, vals) ==
    IF validators = <<>> THEN vals
    ELSE MarshalValidators(Tail(validators), ArraySet(vals, NewBytes(Head(validators))))

RECURSIVE MarshalCommitted(_, _, _)
\* The loop over i.CommittedSeal: an empty entry sets a null into vv, the
\* top-level array; any other entry is set into committed. The result is vv
\* with committed set last.
MarshalCommitted(seals, vv, committed) ==
    IF seals = <<>> THEN ArraySet(vv, committed)
    ELSE IF Len(Head(seals)) = 0
         THEN MarshalCommitted(Tail(seals), ArraySet(vv, NewNull), committed)
         ELSE MarshalCommitted(Tail(seals), vv, ArraySet(committed, NewBytes(Head(seals))))

\* IstanbulExtra.MarshalRLPWith: the value tree of the record.
MarshalRLPWith(i) ==
    LET vv0 == ArraySet(NewArray, MarshalValidators(i.Validators, NewArray))
        vv1 == IF Len(i.Seal) = 0 THEN ArraySet(vv0, NewNull)
               ELSE ArraySet(vv0, NewBytes(i.Seal))
    IN  IF Len(i.CommittedSeal) = 0 THEN ArraySet(vv1, NewNullArray)
        ELSE MarshalCommitted(i.CommittedSeal, vv1, NewArray)

\* IstanbulExtra.MarshalRLPTo: dst followed by the encoding of the record.
MarshalRLPTo(i, dst) == MarshalTo(MarshalRLPWith(i), dst)

RECURSIVE UnmarshalAddrs(_)
\* The loop over the validators' values: GetAddr of each, the first error wins.
UnmarshalAddrs(vals) ==
    IF vals = <<>> THEN [ok |-> TRUE, a |-> <<>>]
    ELSE LET one == GetAddr(Head(vals))
         IN  IF ~one.ok THEN [ok |-> FALSE, a |-> <<>>]
             ELSE LET more == UnmarshalAddrs(Tail(vals))
                  IN  [ok |-> more.ok, a |-> IF more.ok THEN <<one.b>> \o more.a ELSE <<>>]

RECURSIVE UnmarshalSeals(_)
\* The loop over the committed seals' values: GetBytes of each.
UnmarshalSeals(vals) ==
    IF vals = <<>> THEN [ok |-> TRUE, a |-> <<>>]
    ELSE LET one == GetBytes(Head(vals))
         IN  IF ~one.ok THEN [ok |-> FALSE, a |-> <<>>]
             ELSE LET more == UnmarshalSeals(Tail(vals))
                  IN  [ok |-> more.ok, a |-> IF more.ok THEN <<one.b>> \o more.a ELSE <<>>]

Failed(e) == [err |-> e, extra |-> EmptyExtra]

\* UnmarshalRLPFrom with the element count checked by `num < 3`.
UnmarshalRLPFromAtLeast3(v) ==
    LET elems == GetElems(v)
    IN  IF ~elems.ok THEN Failed(ErrNoArray)
        ELSE IF Len(elems.a) < 3 THEN Failed(ErrNotEnoughElements)
        ELSE LET vals == GetElems(elems.a[1])
                 addrs == UnmarshalAddrs(vals.a)
                 seal == GetBytes(elems.a[2])
                 cvals == GetElems(elems.a[3])
                 cseals == UnmarshalSeals(cvals.a)
             IN  IF ~vals.ok THEN Failed(ErrValidatorsType)
                 ELSE IF ~addrs.ok THEN Failed(ErrBadAddress)
                 ELSE IF ~seal.ok THEN Failed(ErrSeal)
                 ELSE IF ~cvals.ok THEN Failed(ErrCommittedType)
                 ELSE IF ~cseals.ok THEN Failed(ErrCommittedEntry)
                 ELSE [err |-> ErrNone, extra |-> IstanbulExtra(addrs.a, seal.b, cseals.a)]

\* IstanbulExtra.UnmarshalRLPFrom: the record of a parsed value, or an error.
UnmarshalRLPFrom(v) ==
    LET elems == GetElems(v)
    IN  IF ~elems.ok THEN Failed(ErrNoArray)
        ELSE IF Len(elems.a) # 3 THEN Failed(ErrNotEnoughElements)
        ELSE LET vals == GetElems(elems.a[1])
                 addrs == UnmarshalAddrs(vals.a)
                 seal == GetBytes(elems.a[2])
                 cvals == GetElems(elems.a[3])
                 cseals == UnmarshalSeals(cvals.a)
             IN  IF ~vals.ok THEN Failed(ErrValidatorsType)
                 ELSE IF ~addrs.ok THEN Failed(ErrBadAddress)
                 ELSE IF ~seal.ok THEN Failed(ErrSeal)
                 ELSE IF ~cvals.ok THEN Failed(ErrCommittedType)
                 ELSE IF ~cseals.ok THEN Failed(ErrCommittedEntry)
                 ELSE [err |-> ErrNone, extra |-> IstanbulExtra(addrs.a, seal.b, cseals.a)]

\* IstanbulExtra.UnmarshalRLP: parse the input, then UnmarshalRLPFrom.
UnmarshalRLP(input) ==
    LET p == ParseValue(input)
    IN  IF ~p.ok THEN Failed(ErrCannotParse) ELSE UnmarshalRLPFrom(p.v)

(***************************************************************************)
(* The accessors and mutators of Header.ExtraData.                         *)
(***************************************************************************)
zeroBytes == [k \in 1..32 |-> 0]

\* putIbftExtra with the old data cut one byte short (extra[:IstanbulExtraVanity-1]).
putIbftExtraCutShort(extraData, istanbulExtra) ==
    LET extra == IF Len(extraData) < IstanbulExtraVanity
                 THEN extraData \o SubSeq(zeroBytes, 1, IstanbulExtraVanity - Len(extraData))
                 ELSE SubSeq(extraData, 1, IstanbulExtraVanity - 1)
    IN  [err |-> ErrNone, data |-> MarshalRLPTo(istanbulExtra, extra),
         wrote |-> TRUE, rec |-> istanbulExtra]

\* putIbftExtra without the padding of a short old data.
putIbftExtraNoPad(extraData, istanbulExtra) ==
    LET extra == IF Len(extraData) < IstanbulExtraVanity
                 THEN extraData
                 ELSE SubSeq(extraData, 1, IstanbulExtraVanity)
    IN  [err |-> ErrNone, data |-> MarshalRLPTo(istanbulExtra, extra),
         wrote |-> TRUE, rec |-> istanbulExtra]

\* putIbftExtra without the cut of a long old data: the record is appended
\* to all of it.
putIbftExtraNoCut(extraData, istanbulExtra) ==
    LET extra == IF Len(extraData) < IstanbulExtraVanity
                 THEN extraData \o SubSeq(zeroBytes, 1, IstanbulExtraVanity - Len(extraData))
                 ELSE extraData
    IN  [err |-> ErrNone, data |-> MarshalRLPTo(istanbulExtra, extra),
         wrote |-> TRUE, rec |-> istanbulExtra]

\* putIbftExtra: the new ExtraData, the vanity of the old one (padded with
\* zeros or cut to IstanbulExtraVanity) followed by the encoded record.
\* wrote and rec tell that h.ExtraData was assigned and from which record.
putIbftExtra(extraData, istanbulExtra) ==
    LET extra == IF Len(extraData) < IstanbulExtraVanity
                 THEN extraData \o SubSeq(zeroBytes, 1, IstanbulExtraVanity - Len(extraData))
                 ELSE SubSeq(extraData, 1, IstanbulExtraVanity)
    IN  [err |-> ErrNone, data |-> MarshalRLPTo(istanbulExtra, extra),
         wrote |-> TRUE, rec |-> istanbulExtra]

\* initIbftExtra: put of (validators, empty seal, no committed seals).
initIbftExtra(extraData, validators) ==
    putIbftExtra(extraData, IstanbulExtra(validators, <<>>, <<>>))

\* getIbftExtra: the record held after the vanity, or an error.
getIbftExtra(extraData) ==
    IF Len(extraData) < IstanbulExtraVanity THEN Failed(ErrWrongExtraSize)
    ELSE UnmarshalRLP(Drop(extraData, IstanbulExtraVanity))

\* The updateFn closures of packSealIntoIbftExtra ("Seal") and
\* packCommittedSealIntoIbftExtra ("CommittedSeal").
updateFn(extra, field, value) == [extra EXCEPT ![field] = value]

\* A call that returned the error of getIbftExtra: ExtraData is not assigned.
NotWritten(extraData, e) ==
    [err |-> e, data |-> extraData, wrote |-> FALSE, rec |-> EmptyExtra]

\* packFieldIntoIbftExtra with the error of getIbftExtra dropped: updateFn
\* and putIbftExtra run on the record a failed get leaves.
packFieldIntoIbftExtraIgnoreErr(extraData, field, value) ==
    LET got == getIbftExtra(extraData)
    IN  [applied |-> TRUE] @@ putIbftExtra(extraData, updateFn(got.extra, field, value))

\* packFieldIntoIbftExtra: get, update, put; applied tells that updateFn ran.
packFieldIntoIbftExtra(extraData, field, value) ==
    LET got == getIbftExtra(extraData)
    IN  IF got.err # ErrNone
        THEN [applied |-> FALSE] @@ NotWritten(extraData, got.err)
        ELSE [applied |-> TRUE] @@ putIbftExtra(extraData, updateFn(got.extra, field, value))

packSealIntoIbftExtra(extraData, seal) ==
    packFieldIntoIbftExtra(extraData, "Seal", seal)

packCommittedSealIntoIbftExtra(extraData, seals) ==
    packFieldIntoIbftExtra(extraData, "CommittedSeal", seals)

\* filterIbftExtraForHash that clears the committed seals and keeps the seal.
filterIbftExtraForHashKeepSeal(extraData) ==
    LET got == getIbftExtra(extraData)
    IN  IF got.err # ErrNone THEN NotWritten(extraData, got.err)
        ELSE putIbftExtra(extraData, IstanbulExtra(got.extra.Validators, got.extra.Seal, <<>>))

\* filterIbftExtraForHash: get, then initIbftExtra with the validators read.
filterIbftExtraForHash(extraData) ==
    LET got == getIbftExtra(extraData)
    IN  IF got.err # ErrNone THEN NotWritten(extraData, got.err)
        ELSE initIbftExtra(extraData, got.extra.Validators)

(***************************************************************************)
(* The inputs of the model.                                                *)
(***************************************************************************)
Bytes(value, n) == [j \in 1..n |-> value]

\* Address k: 20 bytes.
Addr(k) == Bytes(160 + k, AddressLength)

\* n validators in rotation order starting at address `start` (an address
\* repeats when n exceeds NumAddrs: duplicates are not rejected).
Roster(start, n) == [j \in 1..n |-> Addr(((start + j - 2) % NumAddrs) + 1)]

\* The validator lists of the model: up to MaxValidators validators, the
\* rotation starting at the first or at the last address.
ValidatorLists == {Roster(start, n) : start \in {1, NumAddrs}, n \in 0..MaxValidators}

\* Seals: none, a single byte below 0x80 (encoded as itself), and a full
\* seal of IstanbulExtraSeal bytes.
SealValues == {<<>>, <<5>>, Bytes(170, IstanbulExtraSeal)}

\* Entries of a committed-seal list: an empty one and two signatures, one a
\* single byte below 0x80 (encoded as itself).
CommittedEntries == {<<>>, <<7>>, <<200, 1, 2>>}

CommittedLists == UNION {[1..n -> CommittedEntries] : n \in 0..MaxCommitted}

\* Vanity bytes already in a header, and a header shorter than the vanity.
Vanity0 == [j \in 1..IstanbulExtraVanity |-> 64 + j]

ShortExtra == [j \in 1..(IstanbulExtraVanity - 1) |-> j]

List(elems) == [t |-> TypeArray, b |-> <<>>, a |-> elems]

OneValidator == List(<<NewBytes(Addr(1))>>)

\* Payloads a header received from a peer may hold after its vanity: value
\* trees of every shape the decoder tells apart, and bytes that do not parse.
ReceivedPayloads ==
    { <<>>,
      <<197, 1>>,
      MarshalTo(NewBytes(<<5>>), <<>>),
      MarshalTo(List(<<OneValidator, NewNull>>), <<>>),
      MarshalTo(List(<<OneValidator, NewNull, NewNullArray, NewNull>>), <<>>),
      MarshalTo(List(<<List(<<NewBytes(Bytes(161, AddressLength - 1))>>), NewNull, NewNullArray>>), <<>>),
      MarshalTo(List(<<List(<<NewBytes(Bytes(161, AddressLength + 1))>>), NewNull, NewNullArray>>), <<>>),
      MarshalTo(List(<<NewBytes(Addr(1)), NewNull, NewNullArray>>), <<>>),
      MarshalTo(List(<<OneValidator, NewNullArray, NewNullArray>>), <<>>),
      MarshalTo(List(<<OneValidator, NewNull, NewBytes(<<7>>)>>), <<>>),
      MarshalTo(List(<<OneValidator, NewNull, List(<<NewNullArray>>)>>), <<>>),
      MarshalTo(List(<<OneValidator, NewBytes(<<5>>), List(<<NewNull, NewBytes(<<7>>)>>)>>), <<>>),
      MarshalTo(List(<<OneValidator, NewBytes(<<5>>), List(<<NewBytes(<<7>>)>>)>>), <<9, 9>>) }

InitialExtraData ==
    {<<>>, ShortExtra} \cup {Vanity0 \o payload : payload \in ReceivedPayloads}

(***************************************************************************)
(* The state: a header's ExtraData, and the record of the last call.       *)
(***************************************************************************)
VARIABLES
    ExtraData,  \* h.ExtraData
    last,       \* the last call: its name, its error and its effects
    fresh       \* [set, data]: ExtraData as the last initIbftExtra left it

vars == <<ExtraData, last, fresh>>

\* A call: op, the error returned, whether updateFn was applied, whether
\* putIbftExtra was called and with which record, whether getIbftExtra
\* returned a record and which, and whether the call changed ExtraData.
Call(op, r, applied, returned, out, changed) ==
    [op |-> op, err |-> r.err, applied |-> applied, wrote |-> r.wrote, rec |-> r.rec,
     returned |-> returned, out |-> out, changed |-> changed]

NoCall ==
    Call("none", [err |-> ErrNone, wrote |-> FALSE, rec |-> EmptyExtra],
         FALSE, FALSE, EmptyExtra, FALSE)

NotFresh == [set |-> FALSE, data |-> <<>>]

\* Each action binds r, the result of the function it calls on h.ExtraData.
Init ==
    /\ ExtraData \in InitialExtraData
    /\ last = NoCall
    /\ fresh = NotFresh

InitIbftExtra(validators) ==
    \E r \in {initIbftExtra(ExtraData, validators)} :
        /\ ExtraData' = r.data
        /\ last' = Call("init", r, FALSE, FALSE, EmptyExtra, r.data # ExtraData)
        /\ fresh' = [set |-> TRUE, data |-> r.data]

PackSealIntoIbftExtra(seal) ==
    \E r \in {packSealIntoIbftExtra(ExtraData, seal)} :
        /\ ExtraData' = r.data
        /\ last' = Call("seal", r, r.applied, FALSE, EmptyExtra, r.data # ExtraData)
        /\ UNCHANGED fresh

PackCommittedSealIntoIbftExtra(seals) ==
    \E r \in {packCommittedSealIntoIbftExtra(ExtraData, seals)} :
        /\ ExtraData' = r.data
        /\ last' = Call("committed", r, r.applied, FALSE, EmptyExtra, r.data # ExtraData)
        /\ UNCHANGED fresh

FilterIbftExtraForHash ==
    \E r \in {filterIbftExtraForHash(ExtraData)} :
        /\ ExtraData' = r.data
        /\ last' = Call("filter", r, FALSE, FALSE, EmptyExtra, r.data # ExtraData)
        /\ UNCHANGED fresh

GetIbftExtra ==
    \E r \in {getIbftExtra(ExtraData)} :
        /\ last' = Call("get", [err |-> r.err, wrote |-> FALSE, rec |-> EmptyExtra],
                        FALSE, r.err = ErrNone, r.extra, FALSE)
        /\ UNCHANGED <<ExtraData, fresh>>

Next ==
    \/ \E validators \in ValidatorLists : InitIbftExtra(validators)
    \/ \E seal \in SealValues : PackSealIntoIbftExtra(seal)
    \/ \E seals \in CommittedLists : PackCommittedSealIntoIbftExtra(seals)
    \/ FilterIbftExtraForHash
    \/ GetIbftExtra

Spec == Init /\ [][Next]_vars

(***************************************************************************)
(* Properties.                                                             *)
(***************************************************************************)
\* The first IstanbulExtraVanity bytes of a field.
Vanity(data) == SubSeq(data, 1, IstanbulExtraVanity)

\* The bytes of a field right-padded with zeros, or cut, to the vanity length.
PadVanity(data) ==
    [j \in 1..IstanbulExtraVanity |-> IF j <= Len(data) THEN data[j] ELSE 0]

Decoded(extra) == [err |-> ErrNone, extra |-> extra]

Mutators == {"seal", "committed"}

Writers == {"init", "seal", "committed", "filter"}

\* C1: decoding the encoding of every record handed to putIbftExtra succeeds
\* and returns that record.
RoundTrip ==
    last.wrote => UnmarshalRLP(MarshalRLPTo(last.rec, <<>>)) = Decoded(last.rec)

\* C2: the value tree of every record handed to putIbftExtra has exactly 3
\* top-level elements (validators list, seal, committed seals); when the
\* record has committed seals, the nested list has one element per seal, a
\* null value at the position of every empty one.
EncodeHasThreeElements ==
    last.wrote =>
        LET vv == MarshalRLPWith(last.rec)
            seals == last.rec.CommittedSeal
        IN  /\ Len(vv.a) = 3
            /\ vv.a[1].t = TypeArray
            /\ Len(vv.a[1].a) = Len(last.rec.Validators)
            /\ vv.a[2].t \in {TypeBytes, TypeNull}
            /\ Len(seals) > 0 =>
                  /\ vv.a[3].t = TypeArray
                  /\ Len(vv.a[3].a) = Len(seals)
                  /\ \A k \in 1..Len(seals) :
                        vv.a[3].a[k] = IF seals[k] = <<>> THEN NewNull ELSE NewBytes(seals[k])

\* C3: on a header that reads as (V, s, C), packSealIntoIbftExtra(s') returns
\* nil and leaves a header that reads as (V, s', C), and
\* packCommittedSealIntoIbftExtra(C') returns nil and leaves one that reads
\* as (V, s, C').
MutatorsChangeOneField ==
    [][LET before == getIbftExtra(ExtraData)
           after == getIbftExtra(ExtraData')
       IN  before.err = ErrNone =>
             /\ \A seal \in SealValues :
                   PackSealIntoIbftExtra(seal) =>
                      /\ last'.err = ErrNone
                      /\ after = Decoded([before.extra EXCEPT !.Seal = seal])
             /\ \A seals \in CommittedLists :
                   PackCommittedSealIntoIbftExtra(seals) =>
                      /\ last'.err = ErrNone
                      /\ after = Decoded([before.extra EXCEPT !.CommittedSeal = seals])]_vars

\* C4: a call of packSealIntoIbftExtra or packCommittedSealIntoIbftExtra on a
\* header of at least 32 bytes, failed or not, leaves the first 32 bytes as
\* they were.
VanityPreserved ==
    [][(last'.op \in Mutators /\ Len(ExtraData) >= IstanbulExtraVanity)
          => Vanity(ExtraData') = Vanity(ExtraData)]_vars

\* C4 witness: a mutator changed the payload of a received header.
VanityPreservedWitness ==
    /\ last.op = "committed"
    /\ last.err = ErrNone
    /\ last.changed
    /\ ~fresh.set
    /\ Vanity(ExtraData) = Vanity0

\* The committed-seal lists of the model without an empty entry.
FullCommittedLists == {seals \in CommittedLists : \A k \in 1..Len(seals) : seals[k] # <<>>}

\* C5: a successful filterIbftExtraForHash leaves the bytes that initIbftExtra
\* with the same validators leaves on a header holding only the vanity; it
\* leaves the same bytes on every header with that vanity and those
\* validators, whatever its seal and committed seals; and after
\* initIbftExtra and any mutators it leaves the bytes initIbftExtra left.
CanonicalFormDependsOnValidatorsAndVanity ==
    [][(last'.op = "filter" /\ last'.err = ErrNone) =>
          \A validators \in {getIbftExtra(ExtraData).extra.Validators} :
              /\ ExtraData' = initIbftExtra(Vanity(ExtraData), validators).data
              /\ \A seal \in SealValues, seals \in FullCommittedLists :
                    \A r \in {filterIbftExtraForHash(
                                 putIbftExtra(ExtraData, IstanbulExtra(validators, seal, seals)).data)} :
                        r.err = ErrNone /\ r.data = ExtraData'
              /\ fresh.set => ExtraData' = fresh.data]_vars

\* C5 witness: initIbftExtra with three validators, mutators, then a filter
\* that removed seals.
CanonicalFormWitness ==
    /\ last.op = "filter"
    /\ last.err = ErrNone
    /\ last.changed
    /\ fresh.set
    /\ last.rec.Validators = Roster(1, 3)

\* C6: after a successful filterIbftExtraForHash a second one succeeds and
\* leaves the same bytes.
FilterIdempotent ==
    (last.op = "filter" /\ last.err = ErrNone) =>
        LET again == filterIbftExtraForHash(ExtraData)
        IN  again.err = ErrNone /\ again.data = ExtraData

\* C6 witness: a filter that removed seals.
FilterIdempotentWitness ==
    /\ last.op = "filter"
    /\ last.err = ErrNone
    /\ last.changed
    /\ Len(last.rec.Validators) > 0

\* C7: when getIbftExtra fails on the header, a mutator returns that error,
\* does not apply updateFn, does not call putIbftExtra and leaves ExtraData
\* as it was.
NoWriteOnFailedRead ==
    [][last'.op \in Mutators =>
          \A got \in {getIbftExtra(ExtraData)} :
              got.err # ErrNone =>
                  /\ last'.err = got.err
                  /\ ~last'.applied
                  /\ ~last'.wrote
                  /\ ExtraData' = ExtraData]_vars

\* C7 witness: a mutator failed on a header of 32 bytes or more that does not
\* decode.
NoWriteOnFailedReadWitness ==
    /\ last.op \in Mutators
    /\ last.err \notin {ErrNone, ErrWrongExtraSize}
    /\ ~last.changed

\* Whether a parsed payload holds a validators list with an entry that is
\* not a string of exactly 20 bytes.
HasBadAddress(v) ==
    /\ v.t = TypeArray
    /\ Len(v.a) = 3
    /\ v.a[1].t = TypeArray
    /\ \E k \in 1..Len(v.a[1].a) :
          v.a[1].a[k].t = TypeBytes /\ Len(v.a[1].a[k].b) # AddressLength

\* C8: getIbftExtra fails with the size error on a field shorter than 32
\* bytes, with the element-count error on a payload whose list has not
\* exactly 3 elements, with the address error on a validators entry that is
\* not 20 bytes long; in each case no record is returned.
RejectsMalformed ==
    last.op = "get" =>
        LET p == ParseValue(Drop(ExtraData, IstanbulExtraVanity))
        IN  /\ Len(ExtraData) < IstanbulExtraVanity =>
                  last.err = ErrWrongExtraSize /\ ~last.returned /\ last.out = EmptyExtra
            /\ (Len(ExtraData) >= IstanbulExtraVanity /\ p.ok /\ p.v.t = TypeArray
                  /\ Len(p.v.a) # 3) =>
                  last.err = ErrNotEnoughElements /\ ~last.returned /\ last.out = EmptyExtra
            /\ (Len(ExtraData) >= IstanbulExtraVanity /\ p.ok /\ HasBadAddress(p.v)) =>
                  last.err = ErrBadAddress /\ ~last.returned /\ last.out = EmptyExtra

\* C8 witness: a read of a header whose validators list holds an entry of 21
\* bytes.
RejectsMalformedWitness ==
    /\ last.op = "get"
    /\ last.err = ErrBadAddress
    /\ \E k \in 1..Len(ParseValue(Drop(ExtraData, IstanbulExtraVanity)).v.a[1].a) :
          Len(ParseValue(Drop(ExtraData, IstanbulExtraVanity)).v.a[1].a[k].b) = AddressLength + 1

\* C9: every call of putIbftExtra leaves the old bytes padded with zeros or
\* cut to 32 bytes, followed by the encoding of the record written; for
\* initIbftExtra that record is (validators, no seal, no committed seals), so
\* no old byte past the vanity has a part in the new field.
VanityNormalized ==
    [][/\ last'.wrote =>
             ExtraData' = PadVanity(ExtraData) \o MarshalRLPTo(last'.rec, <<>>)
       /\ last'.op = "init" =>
             /\ last'.wrote
             /\ \E validators \in ValidatorLists :
                   last'.rec = IstanbulExtra(validators, <<>>, <<>>)]_vars

\* C9 witness: initIbftExtra wrote into a header of 31 bytes.
VanityNormalizedWitness ==
    /\ last.op = "init"
    /\ last.wrote
    /\ Vanity(ExtraData) = ShortExtra \o <<0>>
    /\ Len(last.rec.Validators) = 2

\* C10: after initIbftExtra, every call of initIbftExtra, a mutator or
\* filterIbftExtraForHash that returns nil leaves a header getIbftExtra reads.
WritePathDecodable ==
    (fresh.set /\ last.op \in Writers /\ last.err = ErrNone) =>
        getIbftExtra(ExtraData).err = ErrNone

=============================================================================
